---- MODULE Spec2Model ----
(***************************************************************************)
(* Model of the lead-genius backend: the webhook handlers and their        *)
(* background tasks (api/analysis.py, api/apify.py), the profile           *)
(* evaluation with its rule-based fallback (services/ai_analysis_service), *)
(* the analysis endpoints (api/analysis.py) and the campaign status update *)
(* (repositories/campaign_repo.py).                                        *)
(*                                                                         *)
(* Strings whose content the code inspects (headlines) are sequences of    *)
(* one-character strings, so that `in` is substring search and lower() is  *)
(* a per-character mapping.                                                *)
(***************************************************************************)
EXTENDS Integers, Sequences, FiniteSets, TLC

VARIABLES ev,          \* last call of evaluate_profile / _fallback_evaluation
          llm,         \* the LLM side: whether a client is configured, its answers
          tasks,       \* BackgroundTasks: every task ever added, in order
          hook,        \* last webhook delivery and the handler's outcome
          posts,       \* table linkedin_post
          interactions,\* table post_interaction
          leads,       \* table lead
          req,         \* last call of start_analysis / get_analysis_results
          campaign,    \* the row of table campaign under update
          clock,       \* datetime.utcnow()
          upd          \* last call of update_status

vars == <<ev, llm, tasks, hook, posts, interactions, leads, req, campaign, clock, upd>>

None == "None"

-----------------------------------------------------------------------------
(* Text *)

UpperLetters == <<"A","B","C","D","E","F","G","H","I","J","K","L","M",
                  "N","O","P","Q","R","S","T","U","V","W","X","Y","Z">>
LowerLetters == <<"a","b","c","d","e","f","g","h","i","j","k","l","m",
                  "n","o","p","q","r","s","t","u","v","w","x","y","z">>

\* str.lower() on one character
LowerChar(c) ==
    IF \E i \in 1..26 : UpperLetters[i] = c
    THEN LowerLetters[CHOOSE i \in 1..26 : UpperLetters[i] = c]
    ELSE c

\* str.lower()
Lower(s) == [i \in 1..Len(s) |-> LowerChar(s[i])]

\* k in s  (substring search)
Contains(s, k) ==
    \E i \in 1..(Len(s) - Len(k) + 1) : SubSeq(s, i, i + Len(k) - 1) = k

\* any(x in s for x in ks)
ContainsAny(s, ks) == \E k \in ks : Contains(s, k)

\* The keywords of _fallback_evaluation
kwCEO           == <<"C","E","O">>
kwFounder       == <<"F","o","u","n","d","e","r">>
kwPresident     == <<"P","r","e","s","i","d","e","n","t">>
kwVP            == <<"V","P">>
kwVicePresident == <<"V","i","c","e"," ","P","r","e","s","i","d","e","n","t">>
kwDirector      == <<"D","i","r","e","c","t","o","r">>
kwManager       == <<"M","a","n","a","g","e","r">>
kwStudent       == <<"s","t","u","d","e","n","t">>
kwRecruiter     == <<"r","e","c","r","u","i","t","e","r">>
kwIntern        == <<"i","n","t","e","r","n">>
kwCompany       == <<"C","o","m","p","a","n","y">>
kwLtd           == <<"L","t","d">>

\* Pieces headlines are assembled from: the keywords, other-case spellings of
\* them, and neutral text.
Fragments ==
    { kwCEO, kwFounder, kwPresident, kwVP, <<"V","i","c","e"," ">>,
      kwDirector, kwManager, kwStudent, kwLtd,
      <<"R","e","c","r","u","i","t","e","r">>,
      <<"I","N","T","E","R","N">>,
      <<"I","n","t","e","r">>, <<"n","a","t","i","o","n","a","l">>,
      <<"c","e","o">>, <<"m","a","n","a","g","e","r">>,
      <<" ">>, <<"S">>, <<"S","a","l","e","s">> }

MaxFrags == 2

RECURSIVE HeadlinesOf(_)
HeadlinesOf(n) ==
    IF n = 0 THEN { <<>> }
    ELSE LET shorter == HeadlinesOf(n - 1)
         IN  shorter \cup { h \o f : h \in shorter, f \in Fragments }

Headlines == HeadlinesOf(MaxFrags)

-----------------------------------------------------------------------------
(* services/ai_analysis_service.py *)

\* A fallback that tests the VP keywords before the C-level ones
fallback_seniority_vp_first(headline) ==
    IF ContainsAny(headline, {kwVP, kwVicePresident}) THEN "VP"
    ELSE IF ContainsAny(headline, {kwCEO, kwFounder, kwPresident}) THEN "C-level"
    ELSE IF Contains(headline, kwDirector) THEN "Director"
    ELSE IF Contains(headline, kwManager) THEN "Manager"
    ELSE "IC"

\* _fallback_evaluation: the if/elif chain that sets seniority
fallback_seniority(headline) ==
    IF ContainsAny(headline, {kwCEO, kwFounder, kwPresident}) THEN "C-level"
    ELSE IF ContainsAny(headline, {kwVP, kwVicePresident}) THEN "VP"
    ELSE IF Contains(headline, kwDirector) THEN "Director"
    ELSE IF Contains(headline, kwManager) THEN "Manager"
    ELSE "IC"

\* A fallback that forgets headline.lower()
fallback_excluded_case_sensitive(headline) ==
    ContainsAny(headline, {kwStudent, kwRecruiter, kwIntern})

\* _fallback_evaluation: excluded
fallback_excluded(headline) ==
    ContainsAny(Lower(headline), {kwStudent, kwRecruiter, kwIntern})

\* AIAnalysisService._fallback_evaluation
fallback_evaluation(headline) ==
    LET seniority == fallback_seniority(headline)
        excluded  == fallback_excluded(headline)
    IN  [ profile_type        |-> IF Contains(headline, kwCompany) \/ Contains(headline, kwLtd)
                                  THEN "company" ELSE "individual",
          role_category       |-> IF excluded THEN "irrelevant" ELSE "influencer",
          seniority_level     |-> seniority,
          industry_match      |-> FALSE,
          intent_from_comment |-> "medium",
          persona_fit_score   |-> IF excluded THEN 0 ELSE 50,
          reasoning           |-> "Fallback evaluation (AI unavailable)" ]

\* What json.loads may produce from a well-formed answer of the model: the
\* fields the prompt asks for, with values the prompt allows.
LLMResults ==
    [ profile_type        : {"individual"},
      role_category       : {"decision_maker", "irrelevant"},
      seniority_level     : {"VP"},
      industry_match      : {TRUE},
      intent_from_comment : {"high"},
      persona_fit_score   : {0, 92},
      reasoning           : {"llm"} ]

\* Outcomes of client.chat.completions.create followed by json.loads
LLMOutcomes ==
    { [kind |-> "call_raises"], [kind |-> "parse_raises"] }
      \cup { [kind |-> "ok", result |-> r] : r \in LLMResults }

\* return v / raise
Return(v) == [raised |-> FALSE, value |-> v]
Raise(e)  == [raised |-> TRUE, error |-> e]

\* An evaluate_profile whose try block covers the call but not json.loads
evaluate_profile_parse_unguarded(client, headline, answer) ==
    IF ~client THEN Return(fallback_evaluation(headline))
    ELSE IF answer.kind = "ok" THEN Return(answer.result)
    ELSE IF answer.kind = "parse_raises" THEN Raise("JSONDecodeError")
    ELSE Return(fallback_evaluation(headline))

\* AIAnalysisService.evaluate_profile, given whether a client is configured
\* and what the LLM step inside the try block does.
evaluate_profile(client, headline, answer) ==
    IF ~client THEN Return(fallback_evaluation(headline))
    ELSE IF answer.kind = "ok" THEN Return(answer.result)
    ELSE Return(fallback_evaluation(headline))      \* except Exception

NoEval == [op |-> None]

\* The calls a profile evaluation can be made with
EvalInputs ==
    [ op : {None}, headline : Headlines, client : BOOLEAN, answer : LLMOutcomes ]

\* A direct call of _fallback_evaluation
FallbackEvaluation ==
    /\ ev.op = None
    /\ ev' = [op |-> "_fallback_evaluation", headline |-> ev.headline,
              out |-> Return(fallback_evaluation(ev.headline))]
    /\ UNCHANGED <<llm, tasks, hook, posts, interactions, leads, req, campaign, clock, upd>>

\* A call of evaluate_profile
EvaluateProfile ==
    /\ ev.op = None
    /\ ev' = [op |-> "evaluate_profile", headline |-> ev.headline,
              client |-> ev.client, answer |-> ev.answer,
              out |-> evaluate_profile(ev.client, ev.headline, ev.answer)]
    /\ UNCHANGED <<llm, tasks, hook, posts, interactions, leads, req, campaign, clock, upd>>

-----------------------------------------------------------------------------
(* api/analysis.py and api/apify.py: the webhooks *)

Absent == "<absent>"     \* the key is not in the JSON object
Null   == "<null>"       \* JSON null, Python None

SUCCEEDED == "ACTOR.RUN.SUCCEEDED"

\* The resource member of a payload: absent, null, or an object
Resources ==
    { [kind |-> "absent"], [kind |-> "null"] }
      \cup [ kind : {"object"},
             id : {Absent, "run1"},
             defaultDatasetId : {Absent, Null, "", "ds1"} ]

Payloads ==
    [ eventType : {Absent, SUCCEEDED, "ACTOR.RUN.FAILED"}, resource : Resources ]

\* d.get(key) for a member that holds v
Get(v) == IF v = Absent THEN Null ELSE v

\* Python truth value of a string or None
Truthy(v) == v \notin {Null, ""}

MaxDeliveries == 3

NewTask(func, dataset_id, run_id) ==
    [func |-> func, dataset_id |-> dataset_id, run_id |-> run_id,
     state |-> "pending", runs |-> 0, pos |-> 0]

\* A handler that skips a run it has already scheduled
webhook_dedup(func, payload) ==
    LET event_type == Get(payload.eventType)
        resource   == payload.resource
    IN  IF resource.kind = "null"
        THEN /\ hook' = [func |-> func, payload |-> payload,
                         out |-> Raise("AttributeError"), before |-> Len(tasks)]
             /\ UNCHANGED tasks
        ELSE LET run_id     == IF resource.kind = "absent" THEN Null ELSE Get(resource.id)
                 dataset_id == IF resource.kind = "absent" THEN Null
                               ELSE Get(resource.defaultDatasetId)
                 known      == \E i \in 1..Len(tasks) :
                                  /\ tasks[i].func = func
                                  /\ tasks[i].dataset_id = dataset_id
                                  /\ tasks[i].run_id = run_id
             IN  /\ tasks' = IF event_type = SUCCEEDED /\ Truthy(dataset_id) /\ ~known
                             THEN Append(tasks, NewTask(func, dataset_id, run_id))
                             ELSE tasks
                 /\ hook' = [func |-> func, payload |-> payload,
                             out |-> Return("received"), before |-> Len(tasks)]

\* The body shared by analysis_webhook and apify_webhook; func is the
\* function handed to background_tasks.add_task.
webhook(func, payload) ==
    LET event_type == Get(payload.eventType)
        resource   == payload.resource
    IN  IF resource.kind = "null"
        THEN \* resource is None: resource.get raises AttributeError
             /\ hook' = [func |-> func, payload |-> payload,
                         out |-> Raise("AttributeError"), before |-> Len(tasks)]
             /\ UNCHANGED tasks
        ELSE LET run_id     == IF resource.kind = "absent" THEN Null ELSE Get(resource.id)
                 dataset_id == IF resource.kind = "absent" THEN Null
                               ELSE Get(resource.defaultDatasetId)
             IN  /\ tasks' = IF event_type = SUCCEEDED /\ Truthy(dataset_id)
                             THEN Append(tasks, NewTask(func, dataset_id, run_id))
                             ELSE tasks
                 /\ hook' = [func |-> func, payload |-> payload,
                             out |-> Return("received"), before |-> Len(tasks)]

NoHook == [func |-> None]

analysis_webhook(payload) ==
    /\ Len(tasks) < MaxDeliveries
    /\ webhook("analysis_service.process_webhook", payload)
    /\ UNCHANGED <<ev, llm, posts, interactions, leads, req, campaign, clock, upd>>

apify_webhook(payload) ==
    /\ Len(tasks) < MaxDeliveries
    /\ webhook("process_apify_dataset", payload)
    /\ UNCHANGED <<ev, llm, posts, interactions, leads, req, campaign, clock, upd>>

\* process_apify_dataset, run once by BackgroundTasks after the response:
\* it fetches the items and logs them; a failure of the fetch ends the task.
process_apify_dataset(i) ==
    /\ tasks[i].func = "process_apify_dataset"
    /\ tasks[i].state = "pending"
    /\ \E fetched \in BOOLEAN :
          tasks' = [tasks EXCEPT ![i].state = IF fetched THEN "done" ELSE "failed",
                                 ![i].runs = @ + 1]
    /\ UNCHANGED <<ev, llm, hook, posts, interactions, leads, req, campaign, clock, upd>>

-----------------------------------------------------------------------------
(* services/analysis_service.py: process_webhook, the background task of the
   analysis webhook.  It fetches the dataset of the run, evaluates every item
   with evaluate_profile and upserts the scored interaction and its lead. *)

\* The post that was submitted with the Apify run "run1"
  \* (LinkedInPost.apify_run_id)
TrackedPost == [id |-> "p1", apify_run_id |-> "run1"]

\* The scraped items of dataset "ds1"
AllItems ==
    << [actor |-> "u1", type |-> "COMMENT", headline |-> kwCEO],
       [actor |-> "u2", type |-> "LIKE",    headline |-> kwStudent],
       [actor |-> "u1", type |-> "LIKE",    headline |-> kwCEO],
       [actor |-> "u3", type |-> "COMMENT", headline |-> kwManager] >>

MaxItems == 2

DatasetItems == SubSeq(AllItems, 1, MaxItems)

\* The LLM side of a deployment: whether OPENAI_API_KEY is set, and what the
\* LLM step does for each item of the dataset
LLMAnswers ==
    { [kind |-> "call_raises"],
      [kind |-> "ok", result |-> [ profile_type |-> "individual",
            role_category |-> "decision_maker", seniority_level |-> "VP",
            industry_match |-> TRUE, intent_from_comment |-> "high",
            persona_fit_score |-> 92, reasoning |-> "llm" ]],
      [kind |-> "ok", result |-> [ profile_type |-> "individual",
            role_category |-> "irrelevant", seniority_level |-> "VP",
            industry_match |-> TRUE, intent_from_comment |-> "high",
            persona_fit_score |-> 0, reasoning |-> "llm" ]] }

LLMWorlds == [ client : BOOLEAN, answers : [1..MaxItems -> LLMAnswers] ]

\* No OPENAI_API_KEY: every evaluation is the fallback
NoLLM == [ client |-> FALSE, answers |-> [n \in 1..MaxItems |-> [kind |-> "call_raises"]] ]

\* The key an interaction is upserted under
KeyOf(row) == <<row.post_id, row.actor, row.type>>

\* Upsert of the lead of an actor: the lead table afterwards
upsert_lead(leadTable, actor, qualified) ==
    IF qualified /\ ~\E l \in leadTable : l.actor = actor
    THEN leadTable \cup { [id |-> Cardinality(leadTable) + 1, actor |-> actor] }
    ELSE leadTable

\* The row a scored interaction is stored as; lead_id is the lead of the
\* actor when this interaction qualified, and 0 (no lead) when it did not
InteractionRow(id, item, result, leadTable) ==
    [ id              |-> id,
      post_id         |-> TrackedPost.id,
      actor           |-> item.actor,
      type            |-> item.type,
      relevance_score |-> result.persona_fit_score,
      role_category   |-> result.role_category,
      lead_id         |-> IF result.role_category # "irrelevant"
                          THEN (CHOOSE l \in leadTable : l.actor = item.actor).id
                          ELSE 0 ]

\* A plain insert: a new row whatever the table holds
insert_interaction(table, item, result, leadTable) ==
    table \cup { InteractionRow(Cardinality(table) + 1, item, result, leadTable) }

\* Upsert of a scored interaction: the interaction table afterwards
upsert_interaction(table, item, result, leadTable) ==
    LET old == { r \in table : KeyOf(r) = <<TrackedPost.id, item.actor, item.type>> }
    IN  IF old = {}
        THEN table \cup { InteractionRow(Cardinality(table) + 1, item, result, leadTable) }
        ELSE (table \ old)
               \cup { InteractionRow((CHOOSE r \in old : TRUE).id, item, result, leadTable) }

\* What process_webhook does with item n: the two tables afterwards
process_item(db, n) ==
    LET item      == DatasetItems[n]
        out       == evaluate_profile(llm.client, item.headline, llm.answers[n])
        qualified == out.value.role_category # "irrelevant"
        leadsAfter == upsert_lead(db.leads, item.actor, qualified)
    IN  [ leads        |-> leadsAfter,
          interactions |-> upsert_interaction(db.interactions, item, out.value, leadsAfter) ]

\* process_webhook begins: the dataset is fetched (or the fetch fails), and
\* the post of the run is looked up.
process_webhook_start(i) ==
    /\ tasks[i].func = "analysis_service.process_webhook"
    /\ tasks[i].state = "pending"
    /\ \E fetched \in BOOLEAN :
          tasks' = [tasks EXCEPT
                      ![i].state = IF ~fetched THEN "failed"
                                   ELSE IF tasks[i].run_id # TrackedPost.apify_run_id
                                           \/ Len(DatasetItems) = 0
                                        THEN "done"
                                        ELSE "running",
                      ![i].runs = @ + 1]
    /\ UNCHANGED <<ev, llm, hook, posts, interactions, leads, req, campaign, clock, upd>>

\* process_webhook handles its next item
process_webhook_item(i) ==
    /\ tasks[i].func = "analysis_service.process_webhook"
    /\ tasks[i].state = "running"
    /\ LET after == process_item([leads |-> leads, interactions |-> interactions],
                                 tasks[i].pos + 1)
       IN  /\ leads' = after.leads
           /\ interactions' = after.interactions
    /\ tasks' = [tasks EXCEPT ![i].pos = @ + 1,
                              ![i].state = IF tasks[i].pos + 1 = Len(DatasetItems)
                                           THEN "done" ELSE "running"]
    /\ UNCHANGED <<ev, llm, hook, posts, req, campaign, clock, upd>>

-----------------------------------------------------------------------------

(* api/analysis.py: start_analysis *)

\* len(request.post_urls) > 10
MaxUrlsPerBatch == 10

\* The longest post_urls list tried
MaxUrls == 12

\* uuid.UUID(str): the UUID a string denotes (32 hexadecimal digits once
\* hyphens, braces and a urn:uuid: prefix are stripped, in either letter
\* case), or Null where uuid.UUID raises ValueError
ParseUUID(str) ==
    CASE str = "123e4567-e89b-12d3-a456-426614174000" -> "orgA"
      [] str = "{123E4567E89B12D3A456426614174000}"   -> "orgA"
      [] str = "9f8e7d6c-5b4a-3210-fedc-ba9876543210" -> "orgB"
      [] OTHER -> Null

\* Strings sent as org_id and persona_id
IdStrings ==
    { "123e4567-e89b-12d3-a456-426614174000",
      "{123E4567E89B12D3A456426614174000}",
      "9f8e7d6c-5b4a-3210-fedc-ba9876543210",
      "123e4567-e89b-12d3-a456",
      "not-a-uuid",
      "" }

\* What analysis_service.analyze_posts does when called with n URLs: it
\* raises, or returns the ids of the analyses it started
ServiceOutcomes(n) ==
    { [kind |-> "raises"] } \cup { [kind |-> "ids", ids |-> [k \in 1..m |-> k]] : m \in 0..n }

HTTPError(code) == [raised |-> TRUE, status_code |-> code]

\* A start_analysis whose length check sits inside the try block
start_analysis_check_in_try(n, org_id, persona_id, service) ==
    IF n > MaxUrlsPerBatch
    THEN [out |-> HTTPError(500), service_called |-> FALSE]
    ELSE IF ParseUUID(org_id) = Null
    THEN [out |-> HTTPError(500), service_called |-> FALSE]
    ELSE IF Truthy(persona_id) /\ ParseUUID(persona_id) = Null
    THEN [out |-> HTTPError(500), service_called |-> FALSE]
    ELSE IF service.kind = "raises"
    THEN [out |-> HTTPError(500), service_called |-> TRUE]
    ELSE [out |-> Return([status |-> "started", count |-> Len(service.ids),
                          ids |-> service.ids]),
          service_called |-> TRUE]

\* start_analysis for a request with n post URLs: the response, and whether
\* analysis_service.analyze_posts was called
start_analysis(n, org_id, persona_id, service) ==
    IF n > MaxUrlsPerBatch
    THEN [out |-> HTTPError(400), service_called |-> FALSE]
    ELSE IF ParseUUID(org_id) = Null                           \* ValueError
    THEN [out |-> HTTPError(500), service_called |-> FALSE]
    ELSE IF Truthy(persona_id) /\ ParseUUID(persona_id) = Null \* ValueError
    THEN [out |-> HTTPError(500), service_called |-> FALSE]
    ELSE IF service.kind = "raises"
    THEN [out |-> HTTPError(500), service_called |-> TRUE]
    ELSE [out |-> Return([status |-> "started", count |-> Len(service.ids),
                          ids |-> service.ids]),
          service_called |-> TRUE]

NoRequest == [op |-> None]

StartAnalysis ==
    /\ req.op = None
    /\ \E n \in 0..MaxUrls, org_id \in IdStrings, persona_id \in IdStrings \cup {Null} :
         \E service \in ServiceOutcomes(n) :
            req' = [op |-> "start_analysis", n |-> n, org_id |-> org_id,
                    persona_id |-> persona_id, service |-> service,
                    res |-> start_analysis(n, org_id, persona_id, service)]
    /\ UNCHANGED <<ev, llm, tasks, hook, posts, interactions, leads, campaign, clock, upd>>

-----------------------------------------------------------------------------
(* api/analysis.py: get_analysis_results *)

PostIds == {"p1", "p2"}

\* Tables linkedin_post can be, with the columns the query reads
PostTables ==
    { { [id |-> p, org_id |-> f[p].org_id, status |-> f[p].status,
         created_at |-> f[p].created_at] : p \in PostIds } :
      f \in [ PostIds -> [ org_id : {"orgA", "orgB"},
                           status : {"pending", "completed"},
                           created_at : {1, 2} ] ] }

MaxInteractions == 2

\* Tables post_interaction can be, with the columns the query reads; lead_id
\* is Null for an interaction that was not converted
InteractionTables ==
    { { [id |-> i, post_id |-> f[i].post_id, relevance_score |-> f[i].relevance_score,
         classification |-> f[i].kind.classification, lead_id |-> f[i].kind.lead_id]
        : i \in 1..MaxInteractions } :
      f \in [ 1..MaxInteractions ->
                [ post_id : PostIds,
                  relevance_score : {10, 50},
                  kind : { [classification |-> "high", lead_id |-> Null],
                           [classification |-> "low",  lead_id |-> "lead1"] } ] ] }

\* The value a row is ordered by
ColumnOf(row, column) ==
    IF column = "created_at" THEN row.created_at ELSE row.relevance_score

\* The orders in which ORDER BY column DESC can return the rows
OrderedDesc(rows, column) ==
    { q \in [1..Cardinality(rows) -> rows] :
        /\ \A i, j \in 1..Cardinality(rows) : i # j => q[i] # q[j]
        /\ \A i, j \in 1..Cardinality(rows) :
              i < j => ColumnOf(q[i], column) >= ColumnOf(q[j], column) }

\* LIMIT n
Limit(q, n) == SubSeq(q, 1, IF n < Len(q) THEN n ELSE Len(q))

\* The interactions of a post, in the orders the inner query can return them
InteractionsOf(post) ==
    OrderedDesc({ i \in interactions : i.post_id = post.id }, "relevance_score")

\* The entry of one post in the response
ResultEntry(post, found) ==
    [ post             |-> [id |-> post.id, status |-> post.status,
                            created_at |-> post.created_at],
      interactions     |-> [k \in 1..Len(found) |->
                              [id |-> found[k].id,
                               classification |-> found[k].classification,
                               score |-> found[k].relevance_score,
                               lead_id |-> found[k].lead_id]],
      leads_created    |-> Cardinality({ k \in 1..Len(found) : Truthy(found[k].lead_id) }),
      high_value_count |-> Cardinality({ k \in 1..Len(found) :
                                           found[k].classification = "high" }) ]

\* The responses to a query whose WHERE clause selects `matching`
ResponsesFor(matching, limit) ==
    UNION {
      { Return([total   |-> Len(page),
                results |-> [k \in 1..Len(page) |-> ResultEntry(page[k], found[k])]]) :
          found \in { g \in [1..Len(page) -> UNION { InteractionsOf(p) : p \in posts }] :
                        \A k \in 1..Len(page) : g[k] \in InteractionsOf(page[k]) } } :
      page \in { Limit(q, limit) : q \in OrderedDesc(matching, "created_at") } }

\* A get_analysis_results that leaves out the WHERE on org_id
get_analysis_results_any_org(org_id, limit, status) ==
    IF ParseUUID(org_id) = Null THEN { HTTPError(500) }
    ELSE IF limit < 0 THEN { HTTPError(500) }
    ELSE ResponsesFor({ p \in posts : Truthy(status) => p.status = status }, limit)

\* get_analysis_results: the responses it can give
get_analysis_results(org_id, limit, status) ==
    IF ParseUUID(org_id) = Null THEN { HTTPError(500) }      \* ValueError
    ELSE IF limit < 0 THEN { HTTPError(500) }                \* the database rejects LIMIT -1
    ELSE ResponsesFor({ p \in posts : /\ p.org_id = ParseUUID(org_id)
                                      /\ Truthy(status) => p.status = status }, limit)

\* The queries tried
QueryOrgIds  == { "123e4567-e89b-12d3-a456-426614174000",
                  "{123E4567E89B12D3A456426614174000}", "not-a-uuid" }
QueryLimits  == (-1)..Cardinality(PostIds)
QueryStatus  == { Null, "", "completed" }

GetAnalysisResults ==
    /\ req.op = None
    /\ \E org_id \in QueryOrgIds, limit \in QueryLimits, status \in QueryStatus :
         \E out \in get_analysis_results(org_id, limit, status) :
            req' = [op |-> "get_analysis_results", org_id |-> org_id, limit |-> limit,
                    status |-> status, out |-> out]
    /\ UNCHANGED <<ev, llm, tasks, hook, posts, interactions, leads, campaign, clock, upd>>

-----------------------------------------------------------------------------
(* repositories/campaign_repo.py: update_status *)

\* A timestamp column: <<>> while None, <<t>> once set to time t
Unset  == <<>>
At(t)  == <<t>>

NewCampaign ==
    [ id |-> "c1", status |-> "draft", started_at |-> Unset, paused_at |-> Unset,
      last_resumed_at |-> Unset, completed_at |-> Unset, updated_at |-> At(0) ]

NoUpdate == [op |-> None]

\* The last time the clock may show
MaxClock == 3

CampaignIds   == {"c1", "c9"}
StatusStrings == {"active", "paused", "completed", "draft", "archived"}

\* datetime.utcnow(): the time read is the clock or later
utcnow(from) == {from, from + 1}

\* An update that leaves paused_at alone when the campaign becomes active
updated_row_keeps_paused_at(row, status, t1, t2, t3) ==
    LET r1 == [row EXCEPT !.status = status, !.updated_at = At(t1)]
    IN  IF status = "active"
        THEN [r1 EXCEPT !.started_at = IF row.started_at = Unset THEN At(t2) ELSE @,
                        !.last_resumed_at = At(t3)]
        ELSE IF status = "paused" THEN [r1 EXCEPT !.paused_at = At(t3)]
        ELSE IF status = "completed" THEN [r1 EXCEPT !.completed_at = At(t3)]
        ELSE r1

\* The row after the assignments of update_status, when its calls of
\* datetime.utcnow() return t1 (updated_at), t2 (started_at) and t3 (the
\* timestamp of the status)
updated_row(row, status, t1, t2, t3) ==
    LET r1 == [row EXCEPT !.status = status, !.updated_at = At(t1)]
    IN  IF status = "active"
        THEN [r1 EXCEPT !.started_at = IF row.started_at = Unset THEN At(t2) ELSE @,
                        !.paused_at = Unset,
                        !.last_resumed_at = At(t3)]
        ELSE IF status = "paused" THEN [r1 EXCEPT !.paused_at = At(t3)]
        ELSE IF status = "completed" THEN [r1 EXCEPT !.completed_at = At(t3)]
        ELSE r1

\* CampaignRepository.update_status
update_status(campaign_id, status) ==
    /\ clock < MaxClock
    /\ IF campaign_id # campaign.id
       THEN \* self.get finds nothing: return None
            /\ upd' = [op |-> "update_status", campaign_id |-> campaign_id,
                       status |-> status, returned |-> Null]
            /\ UNCHANGED <<campaign, clock>>
       ELSE \E t1 \in utcnow(clock) : \E t2 \in utcnow(t1) : \E t3 \in utcnow(t2) :
              /\ campaign' = updated_row(campaign, status, t1, t2, t3)
              /\ clock' = t3
              /\ upd' = [op |-> "update_status", campaign_id |-> campaign_id,
                         status |-> status, returned |-> campaign_id]
    /\ UNCHANGED <<ev, llm, tasks, hook, posts, interactions, leads, req>>

-----------------------------------------------------------------------------
(* Specifications *)

EvalIdle     == ev = NoEval
HooksIdle    == tasks = <<>> /\ hook = NoHook
TablesEmpty  == posts = {} /\ interactions = {} /\ leads = {}
ApiIdle      == req = NoRequest
CampaignIdle == campaign = NewCampaign /\ clock = 0 /\ upd = NoUpdate

\* Nothing has been called yet, and no OPENAI_API_KEY is set
Init ==
    /\ EvalIdle /\ llm = NoLLM /\ HooksIdle /\ TablesEmpty /\ ApiIdle /\ CampaignIdle

\* The webhooks and their background tasks
Next ==
    \/ \E payload \in Payloads : analysis_webhook(payload)
    \/ \E payload \in Payloads : apify_webhook(payload)
    \/ \E i \in 1..Len(tasks) : process_apify_dataset(i)
    \/ \E i \in 1..Len(tasks) : process_webhook_start(i)
    \/ \E i \in 1..Len(tasks) : process_webhook_item(i)

Spec == Init /\ [][Next]_vars

\* One run's webhook, delivered again and again, under every LLM behaviour
RunPayload ==
    [ eventType |-> SUCCEEDED,
      resource  |-> [kind |-> "object", id |-> "run1", defaultDatasetId |-> "ds1"] ]

InitPersist ==
    /\ EvalIdle /\ llm \in LLMWorlds /\ HooksIdle /\ TablesEmpty /\ ApiIdle /\ CampaignIdle

NextPersist ==
    \/ analysis_webhook(RunPayload)
    \/ \E i \in 1..Len(tasks) : process_webhook_start(i)
    \/ \E i \in 1..Len(tasks) : process_webhook_item(i)

SpecPersist == InitPersist /\ [][NextPersist]_vars

\* The profile evaluation, for every call it can be made with
InitEval ==
    /\ ev \in EvalInputs /\ llm = NoLLM /\ HooksIdle /\ TablesEmpty /\ ApiIdle /\ CampaignIdle

NextEval == FallbackEvaluation \/ EvaluateProfile

SpecEval == InitEval /\ [][NextEval]_vars

\* start_analysis, for every request
NextStart == StartAnalysis

SpecStart == Init /\ [][NextStart]_vars

\* get_analysis_results, for every content of the two tables
InitResults ==
    /\ EvalIdle /\ llm = NoLLM /\ HooksIdle /\ ApiIdle /\ CampaignIdle
    /\ posts \in PostTables
    /\ interactions \in InteractionTables
    /\ leads = {}

NextResults == GetAnalysisResults

SpecResults == InitResults /\ [][NextResults]_vars

\* The status updates of a campaign
NextCampaign == \E campaign_id \in CampaignIds, status \in StatusStrings :
                    update_status(campaign_id, status)

SpecCampaign == Init /\ [][NextCampaign]_vars

-----------------------------------------------------------------------------
(* Properties of the webhooks *)

\* The handler's condition for scheduling, read off the payload
Accepted(payload) ==
    /\ payload.eventType = SUCCEEDED
    /\ payload.resource.kind = "object"
    /\ payload.resource.defaultDatasetId \notin {Absent, Null, ""}

\* C1: for every payload the handler answers {"status": "received"}, and it
\* has scheduled one task if eventType is ACTOR.RUN.SUCCEEDED and
\* resource.defaultDatasetId is present and non-empty, and none otherwise.
C1_ReceivedAndScheduledIff ==
    hook.func # None =>
        /\ ~hook.out.raised
        /\ hook.out.value = "received"
        /\ Len(tasks) = hook.before + (IF Accepted(hook.payload) THEN 1 ELSE 0)

\* C3: an accepted delivery has added exactly one task, for its own dataset
\* and run, whether or not the same run was scheduled before, and has been
\* answered "received" whatever became of the task; no task runs twice, so
\* a failed task has run once and is not run again.
C3_FireAndForget ==
    /\ (hook.func # None /\ Accepted(hook.payload)) =>
          /\ Len(tasks) = hook.before + 1
          /\ tasks[Len(tasks)].func = hook.func
          /\ tasks[Len(tasks)].dataset_id = hook.payload.resource.defaultDatasetId
          /\ tasks[Len(tasks)].run_id = Get(hook.payload.resource.id)
          /\ hook.out = Return("received")
    /\ \A i \in 1..Len(tasks) :
          /\ tasks[i].runs <= 1
          /\ tasks[i].state = "pending" <=> tasks[i].runs = 0

\* The same run was delivered twice; the first task failed, the second was
\* scheduled all the same and failed too
C3_Witness ==
    /\ Len(tasks) >= 2
    /\ hook.func # None /\ Accepted(hook.payload)
    /\ tasks[Len(tasks)].state = "failed"
    /\ \E i \in 1..(Len(tasks) - 1) :
          /\ tasks[i].func = tasks[Len(tasks)].func
          /\ tasks[i].dataset_id = tasks[Len(tasks)].dataset_id
          /\ tasks[i].run_id = tasks[Len(tasks)].run_id
          /\ tasks[i].state = "failed"

\* The tables after the dataset was processed exactly once
RECURSIVE ProcessedUpTo(_)
ProcessedUpTo(n) ==
    IF n = 0 THEN [leads |-> {}, interactions |-> {}]
    ELSE process_item(ProcessedUpTo(n - 1), n)

ProcessedOnce == ProcessedUpTo(Len(DatasetItems))

-----
(* Properties of the profile evaluation *)

\* C4: evaluate_profile never raises; without a client, or when the LLM call
\* or the parsing of its answer fails, it returns exactly
\* _fallback_evaluation(headline); it returns the LLM's result only when the
\* call and the parsing both succeed.
C4_FallbackOnLLMFailure ==
    ev.op = "evaluate_profile" =>
        /\ ~ev.out.raised
        /\ (~ev.client \/ ev.answer.kind # "ok")
              => ev.out.value = fallback_evaluation(ev.headline)
        /\ (ev.client /\ ev.answer.kind = "ok") => ev.out.value = ev.answer.result

\* The parsing of the answer failed and the fallback classified the headline
C4_Witness ==
    /\ ev.op = "evaluate_profile"
    /\ ev.client
    /\ ev.answer.kind = "parse_raises"
    /\ ~ev.out.raised
    /\ ev.out.value.seniority_level = "Director"

\* The seniority levels in priority order, each with its keywords
SeniorityGroups ==
    << [level |-> "C-level",  keywords |-> {kwCEO, kwFounder, kwPresident}],
       [level |-> "VP",       keywords |-> {kwVP, kwVicePresident}],
       [level |-> "Director", keywords |-> {kwDirector}],
       [level |-> "Manager",  keywords |-> {kwManager}] >>

MatchingGroups(h) ==
    { g \in 1..Len(SeniorityGroups) :
        \E k \in SeniorityGroups[g].keywords, i \in 1..Len(h) :
            /\ i + Len(k) - 1 <= Len(h)
            /\ \A j \in 1..Len(k) : h[i + j - 1] = k[j] }

\* C5: the fallback's seniority is the level of the highest-priority group
\* (C-level, VP, Director, Manager) one of whose case-sensitive keywords
\* occurs in the headline, and IC when none occurs; it is always one of the
\* five levels.
C5_SeniorityByPriority ==
    ev.op = "_fallback_evaluation" =>
        LET m == MatchingGroups(ev.headline)
            s == ev.out.value.seniority_level
        IN  /\ s \in {"C-level", "VP", "Director", "Manager", "IC"}
            /\ m = {} => s = "IC"
            /\ m # {} => s = SeniorityGroups[CHOOSE g \in m : \A o \in m : g <= o].level

\* A headline with keywords of several groups got the highest-priority level
C5_Witness ==
    /\ ev.op = "_fallback_evaluation"
    /\ Cardinality(MatchingGroups(ev.headline)) >= 2
    /\ 1 \notin MatchingGroups(ev.headline)
    /\ ev.out.value.seniority_level = "VP"

\* k occurs in h in some letter case
OccursAnyCase(h, k) ==
    \E i \in 1..Len(h) :
        /\ i + Len(k) - 1 <= Len(h)
        /\ \A j \in 1..Len(k) : LowerChar(h[i + j - 1]) = k[j]

\* C6: the fallback disqualifies a profile exactly when its headline contains
\* student, recruiter or intern in any letter case: then role_category is
\* "irrelevant" and persona_fit_score 0, otherwise "influencer" and 50;
\* industry_match is always false and intent_from_comment always "medium".
C6_Disqualification ==
    ev.op = "_fallback_evaluation" =>
        LET r == ev.out.value
            disqualified == \E k \in {kwStudent, kwRecruiter, kwIntern} :
                                OccursAnyCase(ev.headline, k)
        IN  /\ disqualified => r.role_category = "irrelevant" /\ r.persona_fit_score = 0
            /\ ~disqualified => r.role_category = "influencer" /\ r.persona_fit_score = 50
            /\ (r.persona_fit_score = 0) <=> (r.role_category = "irrelevant")
            /\ r.industry_match = FALSE
            /\ r.intent_from_comment = "medium"

\* A headline spelling a disqualifying word in capitals, with a senior title
C6_Witness ==
    /\ ev.op = "_fallback_evaluation"
    /\ Contains(ev.headline, <<"I","N","T","E","R","N">>)
    /\ ev.out.value.seniority_level = "C-level"
    /\ ev.out.value.persona_fit_score = 0

-----------------------------------------------------------------------------
(* Properties of the analysis endpoints *)

\* C7: a request with more than 10 URLs is answered 400 and never reaches
\* the analysis service; one with at most 10 URLs whose org_id, or non-empty
\* persona_id, is no UUID is answered 500, also without reaching the
\* service; a successful response's count is the number of ids the service
\* returned.
C7_BatchLimit ==
    req.op = "start_analysis" =>
        LET r == req.res
            bad_id == \/ ParseUUID(req.org_id) = Null
                      \/ req.persona_id \notin {Null, ""} /\ ParseUUID(req.persona_id) = Null
        IN  /\ req.n > MaxUrlsPerBatch =>
                  r.out.raised /\ r.out.status_code = 400 /\ ~r.service_called
            /\ (req.n <= MaxUrlsPerBatch /\ bad_id) =>
                  r.out.raised /\ r.out.status_code = 500 /\ ~r.service_called
            /\ ~r.out.raised =>
                  /\ r.service_called
                  /\ r.out.value.ids = req.service.ids
                  /\ r.out.value.count = Len(req.service.ids)

\* Eleven URLs with a valid org_id were rejected with 400
C7_Witness ==
    /\ req.op = "start_analysis"
    /\ req.n = MaxUrlsPerBatch + 1
    /\ ParseUUID(req.org_id) # Null
    /\ req.res.out.raised /\ req.res.out.status_code = 400

\* C8: every post of a response belongs to the organization asked for and,
\* when a status filter is given, has that status; at most `limit` posts are
\* returned, newest created_at first; the interactions listed for a post are
\* exactly the rows with its post_id, each once, in non-increasing
\* relevance_score order; leads_created counts those with a lead_id,
\* high_value_count those classified "high"; total is the number of posts
\* returned.
C8_ScopedResults ==
    (req.op = "get_analysis_results" /\ ~req.out.raised) =>
        LET R == req.out.value.results
        IN  /\ req.out.value.total = Len(R)
            /\ Len(R) <= req.limit
            /\ \A k \in 1..Len(R) :
                  \E p \in posts :
                     /\ p.id = R[k].post.id
                     /\ p.org_id = ParseUUID(req.org_id)
                     /\ req.status \notin {Null, ""} => p.status = req.status
            /\ \A k, m \in 1..Len(R) :
                  k < m => R[k].post.created_at >= R[m].post.created_at
            /\ \A k \in 1..Len(R) :
                  LET L    == R[k].interactions
                      mine == { i \in interactions : i.post_id = R[k].post.id }
                  IN  /\ { L[j].id : j \in 1..Len(L) } = { i.id : i \in mine }
                      /\ Len(L) = Cardinality(mine)
                      /\ \A j \in 1..(Len(L) - 1) : L[j].score >= L[j + 1].score
                      /\ R[k].leads_created
                            = Cardinality({ i \in mine : i.lead_id # Null })
                      /\ R[k].high_value_count
                            = Cardinality({ i \in mine : i.classification = "high" })

\* A response listing one post of two interactions with different scores,
\* one of them converted, while a post of another organization is stored
C8_Witness ==
    /\ req.op = "get_analysis_results" /\ ~req.out.raised
    /\ \E p \in posts : p.org_id # ParseUUID(req.org_id)
    /\ req.out.value.total = 1
    /\ Len(req.out.value.results[1].interactions) = 2
    /\ req.out.value.results[1].interactions[1].score
          > req.out.value.results[1].interactions[2].score
    /\ req.out.value.results[1].leads_created = 1

-----------------------------------------------------------------------------
(* Properties of the campaign status update *)

\* A timestamp taken during the step
SetNow(column) == \E t \in clock..clock' : column = At(t)

\* C9: update_status on an existing campaign sets status to the value given,
\* whatever the current status, and updated_at to now; "active" sets
\* last_resumed_at to now, clears paused_at and sets started_at only if it
\* was unset; "paused" sets paused_at to now; "completed" sets completed_at
\* to now; any other value changes nothing else.  Every timestamp not named
\* for the status keeps its value.
C9_Step ==
    IF upd'.returned = Null
    THEN campaign' = campaign
    ELSE LET s == upd'.status
         IN  /\ campaign'.status = s
             /\ campaign'.id = campaign.id
             /\ SetNow(campaign'.updated_at)
             /\ IF s = "active"
                THEN /\ SetNow(campaign'.last_resumed_at)
                     /\ campaign'.paused_at = Unset
                     /\ IF campaign.started_at = Unset
                        THEN SetNow(campaign'.started_at)
                        ELSE campaign'.started_at = campaign.started_at
                     /\ campaign'.completed_at = campaign.completed_at
                ELSE IF s = "paused"
                THEN /\ SetNow(campaign'.paused_at)
                     /\ campaign'.started_at = campaign.started_at
                     /\ campaign'.last_resumed_at = campaign.last_resumed_at
                     /\ campaign'.completed_at = campaign.completed_at
                ELSE IF s = "completed"
                THEN /\ SetNow(campaign'.completed_at)
                     /\ campaign'.started_at = campaign.started_at
                     /\ campaign'.last_resumed_at = campaign.last_resumed_at
                     /\ campaign'.paused_at = campaign.paused_at
                ELSE /\ campaign'.started_at = campaign.started_at
                     /\ campaign'.last_resumed_at = campaign.last_resumed_at
                     /\ campaign'.paused_at = campaign.paused_at
                     /\ campaign'.completed_at = campaign.completed_at

C9_StatusTimestamps == [][C9_Step]_vars

\* A completed campaign that had been paused was set active again: paused_at
\* is cleared, started_at is the first start
C9_Witness ==
    /\ upd.op = "update_status" /\ upd.status = "active" /\ upd.returned # Null
    /\ campaign.status = "active"
    /\ campaign.completed_at # Unset
    /\ campaign.paused_at = Unset
    /\ campaign.started_at # campaign.last_resumed_at

====
